---- MODULE Spec2Model ----
(***************************************************************************)
(* Personal Expense Tracker: the browser client (src/src/App.jsx), its     *)
(* IndexedDB store (src/src/db.js) and the Express service (src/server.js).*)
(*                                                                         *)
(* An async handler of the client that is suspended at a fetch is a task   *)
(* in `tasks`.  A step runs a handler from one network call to the next:   *)
(* the response of the fetch it waited for (the service's whole route      *)
(* handler included), the IndexedDB transactions and state updates that    *)
(* follow, up to the next fetch.  Handlers interleave at their fetches.    *)
(***************************************************************************)
EXTENDS Integers, Sequences, FiniteSets, TLC

\* ---------------------------------------------------------------- bounds
MaxId == 2          \* number of identifiers uuidv4() can hand out
MaxRemote == 2      \* cap on the length of the service's list
MaxTasks == 2       \* cap on the client's handlers suspended at a fetch
MaxLoad == 3        \* cap on identifiers handed out plus suspended handlers
MaxSummaryLen == 3  \* length of the working sets getSummary is applied to
MaxSaves == 2       \* cap on the service's requests waiting in saveToDisk()

\* ------------------------------------------------------------- constants
NoId == 0           \* null / undefined where an id is expected
Ids == 1..MaxId

\* What the user can type into the form.  The amount field is a string of
\* decimal digits (input type="number", required).
FormAmounts == {<<0>>, <<5>>}
MoreAmounts == FormAmounts \cup {<<7>>}
Descriptions == {"Coffee"}
categories == {"Food"}
Dates == {"2024-01-15"}

ServerFields == {"id", "amount", "description", "category", "date"}

\* ------------------------------------------------------- pure functions

\* parseFloat on a string of decimal digits.
RECURSIVE parseFloat(_)
parseFloat(s) ==
  IF s = <<>> THEN 0 ELSE 10 * parseFloat(SubSeq(s, 1, Len(s) - 1)) + s[Len(s)]

RemoveAt(s, k) == SubSeq(s, 1, k - 1) \o SubSeq(s, k + 1, Len(s))

SeqIds(s) == {s[k].id : k \in 1..Len(s)}

\* findIndex(exp => exp.id === id); 0 stands for -1.
FindIndex(list, id) ==
  IF \E k \in 1..Len(list) : list[k].id = id
  THEN CHOOSE k \in 1..Len(list) :
         list[k].id = id /\ \A m \in 1..(k - 1) : list[m].id # id
  ELSE 0

\* JavaScript's !v for the value of field f of a request body: a missing
\* field is undefined; 0 and the empty string are falsy as well.
Not(body, f) ==
  IF f \notin DOMAIN body THEN TRUE
  ELSE IF f \in {"id", "amount"} THEN body[f] = 0
  ELSE body[f] = ""

\* ----------------------------------------------------- service (server.js)

\* Faulty variant: answers 201 without pushing the record
PostExpensesNoPush(list, body) ==
  IF \E f \in ServerFields : Not(body, f)
  THEN [status |-> 400, expenses |-> list]
  ELSE [status |-> 201, expenses |-> list]

\* POST /expenses.  Result: the status and the list afterwards.
PostExpenses(list, body) ==
  IF \E f \in ServerFields : Not(body, f)
  THEN [status |-> 400, expenses |-> list]
  ELSE [status |-> 201,
        expenses |-> Append(list, [id |-> body.id, amount |-> body.amount,
                                   description |-> body.description,
                                   category |-> body.category, date |-> body.date])]

\* Faulty variant: validates the body before it looks for the id
PutExpensesValidateFirst(list, id, body) ==
  LET expenseIndex == FindIndex(list, id) IN
  IF \E f \in ServerFields \ {"id"} : Not(body, f)
  THEN [status |-> 400, error |-> "All fields are required", expenses |-> list]
  ELSE IF expenseIndex = 0
  THEN [status |-> 404, error |-> "Expense not found", expenses |-> list]
  ELSE [status |-> 200, error |-> "",
        expenses |-> [list EXCEPT ![expenseIndex] =
                        [id |-> id, amount |-> body.amount,
                         description |-> body.description,
                         category |-> body.category, date |-> body.date]]]

\* PUT /expenses/:id.  error is the error member of the JSON answer, "" when
\* the answer has none.
PutExpenses(list, id, body) ==
  LET expenseIndex == FindIndex(list, id) IN
  IF expenseIndex = 0
  THEN [status |-> 404, error |-> "Expense not found", expenses |-> list]
  ELSE IF \E f \in ServerFields \ {"id"} : Not(body, f)
  THEN [status |-> 400, error |-> "All fields are required", expenses |-> list]
  ELSE [status |-> 200, error |-> "",
        expenses |-> [list EXCEPT ![expenseIndex] =
                        [id |-> id, amount |-> body.amount,
                         description |-> body.description,
                         category |-> body.category, date |-> body.date]]]

\* DELETE /expenses/:id
DeleteExpenses(list, id) ==
  LET expenseIndex == FindIndex(list, id) IN
  IF expenseIndex = 0
  THEN [status |-> 404, error |-> "Expense not found", expenses |-> list]
  ELSE [status |-> 204, error |-> "", expenses |-> RemoveAt(list, expenseIndex)]

\* The file DATA_FILE: absent, or holding the text of a JSON array, or
\* holding text that does not parse (a mix of two texts written at the same
\* time, or the beginning of a text whose write was cut short).  JSON.stringify followed by JSON.parse
\* gives back a list of records of strings and finite numbers as it was.
NoFile == [state |-> "ENOENT", list |-> <<>>]
Garbled == [state |-> "garbled", list |-> <<>>]
Truncated == [state |-> "truncated", list |-> <<>>]

\* fs.writeFile(DATA_FILE, JSON.stringify(expenses, null, 2), 'utf8')
WriteFile(list) == [state |-> "json", list |-> list]

\* loadFromDisk(): the list after it, current being the list before it.
loadFromDisk(file, current) ==
  IF file.state = "json" THEN file.list
  ELSE IF file.state = "ENOENT" THEN <<>>
  ELSE current

\* The file after a route handler that answered r, no other request being
\* handled meanwhile: the handlers that change the list await saveToDisk()
\* before they answer.
Saved(r, file) ==
  IF r.status \in {200, 201, 204} THEN WriteFile(r.expenses) ELSE file

\* ------------------------------------------------- local store (db.js)
\* The object store 'expenses' with keyPath 'id': a function from the keys
\* it holds to the records.

\* Faulty variant: stores the record as synced
addExpenseSynced(store, expense) ==
  IF expense.id = NoId \/ expense.id \in DOMAIN store
  THEN [ok |-> FALSE, store |-> store]
  ELSE [ok |-> TRUE,
        store |-> [k \in DOMAIN store \cup {expense.id} |->
                     IF k = expense.id THEN [expense EXCEPT !.synced = TRUE]
                     ELSE store[k]]]

\* store.add: fails (DataError) without a valid key and (ConstraintError)
\* when the key is taken.
addExpense(store, expense) ==
  IF expense.id = NoId \/ expense.id \in DOMAIN store
  THEN [ok |-> FALSE, store |-> store]
  ELSE [ok |-> TRUE,
        store |-> [k \in DOMAIN store \cup {expense.id} |->
                     IF k = expense.id THEN expense ELSE store[k]]]

\* store.put: insert or overwrite.
updateExpense(store, expense) ==
  [k \in DOMAIN store \cup {expense.id} |->
     IF k = expense.id THEN expense ELSE store[k]]

\* Faulty variant: deletes nothing
deleteExpenseKeep(store, id) == store

\* store.delete
deleteExpense(store, id) == [k \in DOMAIN store \ {id} |-> store[k]]

\* store.getAll: the records in key order.
RECURSIVE InKeyOrder(_, _)
InKeyOrder(store, keys) ==
  IF keys = {} THEN <<>>
  ELSE LET k == CHOOSE x \in keys : \A y \in keys : x <= y
       IN <<store[k]>> \o InKeyOrder(store, keys \ {k})

getExpenses(store) == InKeyOrder(store, DOMAIN store)

\* ------------------------------------------------------ client helpers

WithSynced(rec, flag) ==
  [id |-> rec.id, amount |-> rec.amount, description |-> rec.description,
   category |-> rec.category, date |-> rec.date, synced |-> flag]

\* serverExpenses.map(exp => ({ ...exp, synced: true }))
ServerWithFlag(serverExpenses) ==
  [k \in 1..Len(serverExpenses) |-> WithSynced(serverExpenses[k], TRUE)]

\* Faulty variant: keeps the pending records that are on the server too
MergedNoDedup(serverWithFlag, localExpenses) ==
  LET Pending(le) == ~le.synced
  IN serverWithFlag \o SelectSeq(localExpenses, Pending)

\* [...serverWithFlag, ...pendingNotOnServer]
Merged(serverWithFlag, localExpenses) ==
  LET Pending(le) == ~le.synced /\ le.id \notin SeqIds(serverWithFlag)
  IN serverWithFlag \o SelectSeq(localExpenses, Pending)

\* Faulty variant: does not look at the synced flag
NextUnsyncedAny(list, k) == IF k <= Len(list) THEN k ELSE Len(list) + 1

\* The next index >= k of the sweep's list whose record is not synced;
\* Len + 1 when there is none.
NextUnsynced(list, k) ==
  IF \E m \in k..Len(list) : ~list[m].synced
  THEN CHOOSE m \in k..Len(list) :
         ~list[m].synced /\ \A n \in k..(m - 1) : list[n].synced
  ELSE Len(list) + 1

PendingIds(store) == {k \in DOMAIN store : ~store[k].synced}

\* ------------------------------------------------------------ the state
VARIABLES
  net,        \* the service is reachable (environment)
  remote,     \* server.js: expenses
  localDB,    \* IndexedDB object store 'expenses'
  expenses,   \* App state: the working set
  isOnline,   \* App state: the online signal
  editing,    \* App state: id of the expense being edited, NoId for null
  used,       \* identifiers uuidv4() has handed out
  tasks,      \* the client's handlers suspended at a fetch, oldest first
  last,       \* history: what the latest step completed
  offlineNew, \* history: ids created offline since the signal last became true
  dataFile,   \* server.js: the file DATA_FILE
  saves,      \* server.js: the calls of saveToDisk() that have not returned
  offlineEdit \* history: the latest offline edit of a record the service holds

vars == <<net, remote, localDB, expenses, isOnline, editing, used, tasks, last,
          offlineNew, dataFile, saves, offlineEdit>>

None == [op |-> "none"]

\* offlineEdit follows one offline edit of a record that is in the remote
\* list: "edited" until the signal next becomes true, "sweeping" from then
\* until every handler has returned.  Another submit or delete, a reload
\* during the sweep and a request that fails at transport level end it.
NoEdit == [phase |-> "none"]

AfterFetch(left) ==
  IF offlineEdit.phase = "sweeping" /\ (~net \/ left = <<>>)
  THEN NoEdit ELSE offlineEdit

\* The model's caps on what a step may add.
Fits(ids, suspended) ==
  /\ Cardinality(ids) <= MaxId
  /\ Len(suspended) <= MaxTasks
  /\ Cardinality(ids) + Len(suspended) <= MaxLoad

Init ==
  /\ net \in BOOLEAN
  /\ remote = <<>>
  /\ localDB = <<>>
  /\ expenses = <<>>
  /\ isOnline = FALSE
  /\ editing = NoId
  /\ used = {}
  /\ tasks = <<>>
  /\ last = None
  /\ offlineNew = {}
  /\ dataFile = NoFile
  /\ saves = <<>>
  /\ offlineEdit = NoEdit

\* ---------------------------------------------------------- environment

\* The network path to the service comes up or goes down.
NetChange ==
  /\ net' = ~net
  /\ last' = None
  /\ UNCHANGED <<offlineEdit, dataFile, saves, remote, localDB, expenses, isOnline, editing, used, tasks,
                 offlineNew>>

\* The page is (re)loaded: React state starts over and the handlers of the
\* old page are gone.  The mount effect calls loadExpenses() of the first
\* render, whose isOnline is false: setExpenses(await getExpenses()).
\* IndexedDB and the service keep their contents.
Reload ==
  /\ isOnline' = FALSE
  /\ expenses' = getExpenses(localDB)
  /\ editing' = NoId
  /\ tasks' = <<>>
  /\ last' = [op |-> "load", how |-> "offline"]
  /\ offlineEdit' = IF offlineEdit.phase = "sweeping" THEN NoEdit ELSE offlineEdit
  /\ UNCHANGED <<dataFile, saves, net, remote, localDB, used, offlineNew>>

\* ------------------------------------------------------- syncExpenses

\* loadExpenses() at the end of syncExpenses (isOnline is true in its
\* closure), suspended at fetch(GET /expenses).
LoadTask == [kind |-> "load", pc |-> "fetchGET"]

\* The sweep from index k of its list on: suspended at the POST of the
\* next record that is not synced, or in loadExpenses() after the loop.
SweepOn(task, list, k) ==
  LET n == NextUnsynced(list, k) IN
  IF n <= Len(list)
  THEN [task EXCEPT !.pc = "fetchPOST", !.localExpenses = list, !.i = n]
  ELSE LoadTask

\* syncExpenses() up to its first fetch: const localExpenses = await
\* getExpenses().  pend and posted are history: the ids read as pending and
\* the ids whose POST was issued.
NewSync ==
  LET list == getExpenses(localDB)
      unsynced == LET P(e) == ~e.synced IN SelectSeq(list, P)
  IN SweepOn([kind |-> "sync", pc |-> "", localExpenses |-> list, i |-> 1,
              pend |-> [k \in 1..Len(unsynced) |-> unsynced[k].id],
              posted |-> <<>>], list, 1)

SweepEnd(task, how) ==
  [op |-> "sweep", how |-> how, pend |-> task.pend, posted |-> task.posted]

\* ------------------------------------------------- connectivity monitor

\* Faulty variant: runs syncExpenses() after every probe that succeeds
checkOnlineAlwaysSync ==
  /\ isOnline' = net
  /\ IF net
     THEN /\ Fits(used, Append(tasks, NewSync))
          /\ tasks' = Append(tasks, NewSync)
          /\ last' = IF NewSync.kind = "load"
                     THEN SweepEnd([pend |-> <<>>, posted |-> <<>>], "loop")
                     ELSE None
          /\ offlineNew' = {}
          /\ offlineEdit' = IF offlineEdit.phase = "edited"
                            THEN [offlineEdit EXCEPT !.phase = "sweeping"]
                            ELSE offlineEdit
     ELSE /\ tasks' = tasks
          /\ last' = None
          /\ offlineNew' = offlineNew
          /\ offlineEdit' = offlineEdit
  /\ UNCHANGED <<dataFile, saves, net, remote, localDB, expenses, editing, used>>

\* checkOnline(): a HEAD probe; its outcome overwrites the signal.  The
\* effect on [isOnline] runs syncExpenses() when the signal became true.
checkOnline ==
  /\ isOnline' = net
  /\ IF ~isOnline /\ net
     THEN /\ Fits(used, Append(tasks, NewSync))
          /\ tasks' = Append(tasks, NewSync)
          /\ last' = IF NewSync.kind = "load"
                     THEN SweepEnd([pend |-> <<>>, posted |-> <<>>], "loop")
                     ELSE None
          /\ offlineNew' = {}
          /\ offlineEdit' = IF offlineEdit.phase = "edited"
                            THEN [offlineEdit EXCEPT !.phase = "sweeping"]
                            ELSE offlineEdit
     ELSE /\ tasks' = tasks
          /\ last' = None
          /\ offlineNew' = offlineNew
          /\ offlineEdit' = offlineEdit
  /\ UNCHANGED <<dataFile, saves, net, remote, localDB, expenses, editing, used>>

\* Faulty variant: marks the record synced only when the POST was answered 201
SyncPostChecked(t) ==
  /\ t \in 1..Len(tasks)
  /\ tasks[t].kind = "sync" /\ tasks[t].pc = "fetchPOST"
  /\ LET task == [tasks[t] EXCEPT
                    !.posted = Append(@, tasks[t].localExpenses[tasks[t].i].id)]
         exp == WithSynced(task.localExpenses[task.i], TRUE)
         r == PostExpenses(remote, task.localExpenses[task.i])
         next == SweepOn(task, [task.localExpenses EXCEPT ![task.i] = exp],
                         task.i + 1)
     IN IF net
        THEN /\ Len(r.expenses) <= MaxRemote
             /\ remote' = r.expenses
             /\ dataFile' = Saved(r, dataFile)
             /\ localDB' = IF r.status = 201 THEN updateExpense(localDB, exp)
                          ELSE localDB
             /\ tasks' = [tasks EXCEPT ![t] = next]
             /\ last' = IF next.kind = "load" THEN SweepEnd(task, "loop")
                        ELSE [op |-> "push", id |-> exp.id, status |-> r.status]
        ELSE /\ remote' = remote
             /\ dataFile' = dataFile
             /\ localDB' = localDB
             /\ tasks' = RemoveAt(tasks, t)
             /\ last' = SweepEnd(task, "catch")
  /\ offlineEdit' = AfterFetch(tasks')
  /\ UNCHANGED <<saves, net, expenses, isOnline, editing, used, offlineNew>>

\* The response of the sweep's POST: exp.synced = true; await
\* updateInDB(exp); then the loop goes on.  A transport failure throws
\* into the catch of syncExpenses, which ends the sweep.
SyncPost(t) ==
  /\ t \in 1..Len(tasks)
  /\ tasks[t].kind = "sync" /\ tasks[t].pc = "fetchPOST"
  /\ LET task == [tasks[t] EXCEPT
                    !.posted = Append(@, tasks[t].localExpenses[tasks[t].i].id)]
         exp == WithSynced(task.localExpenses[task.i], TRUE)
         r == PostExpenses(remote, task.localExpenses[task.i])
         next == SweepOn(task, [task.localExpenses EXCEPT ![task.i] = exp],
                         task.i + 1)
     IN IF net
        THEN /\ Len(r.expenses) <= MaxRemote
             /\ remote' = r.expenses
             /\ dataFile' = Saved(r, dataFile)
             /\ localDB' = updateExpense(localDB, exp)
             /\ tasks' = [tasks EXCEPT ![t] = next]
             /\ last' = IF next.kind = "load" THEN SweepEnd(task, "loop")
                        ELSE [op |-> "push", id |-> exp.id, status |-> r.status]
        ELSE /\ remote' = remote
             /\ dataFile' = dataFile
             /\ localDB' = localDB
             /\ tasks' = RemoveAt(tasks, t)
             /\ last' = SweepEnd(task, "catch")
  /\ offlineEdit' = AfterFetch(tasks')
  /\ UNCHANGED <<saves, net, expenses, isOnline, editing, used, offlineNew>>

\* ------------------------------------------------------- loadExpenses

\* The local store after `for (const exp of serverWithFlag) await
\* updateInDB(exp)`.
RECURSIVE WriteBack(_, _)
WriteBack(store, serverWithFlag) ==
  IF serverWithFlag = <<>> THEN store
  ELSE WriteBack(updateExpense(store, Head(serverWithFlag)), Tail(serverWithFlag))

\* Faulty variant: the catch leaves the working set as it is
LoadFetchNoFallback(t) ==
  /\ t \in 1..Len(tasks)
  /\ tasks[t].kind = "load" /\ tasks[t].pc = "fetchGET"
  /\ IF net
     THEN LET serverWithFlag == ServerWithFlag(remote) IN
          /\ expenses' = Merged(serverWithFlag, getExpenses(localDB))
          /\ localDB' = WriteBack(localDB, serverWithFlag)
          /\ last' = [op |-> "load", how |-> "merge"]
     ELSE /\ expenses' = expenses
          /\ localDB' = localDB
          /\ last' = [op |-> "load", how |-> "catch"]
  /\ tasks' = RemoveAt(tasks, t)
  /\ offlineEdit' = AfterFetch(tasks')
  /\ UNCHANGED <<dataFile, saves, net, remote, isOnline, editing, used, offlineNew>>

\* The response of GET /expenses: merge, setExpenses(merged), write back.
\* A transport failure goes to the catch, which falls back to the local
\* store.
LoadFetch(t) ==
  /\ t \in 1..Len(tasks)
  /\ tasks[t].kind = "load" /\ tasks[t].pc = "fetchGET"
  /\ IF net
     THEN LET serverWithFlag == ServerWithFlag(remote) IN
          /\ expenses' = Merged(serverWithFlag, getExpenses(localDB))
          /\ localDB' = WriteBack(localDB, serverWithFlag)
          /\ last' = [op |-> "load", how |-> "merge"]
     ELSE /\ expenses' = getExpenses(localDB)
          /\ localDB' = localDB
          /\ last' = [op |-> "load", how |-> "catch"]
  /\ tasks' = RemoveAt(tasks, t)
  /\ offlineEdit' = AfterFetch(tasks')
  /\ UNCHANGED <<dataFile, saves, net, remote, isOnline, editing, used, offlineNew>>

\* ------------------------------------------------------- user handlers

\* handleEdit(expense) on a row of the displayed list
handleEdit(k) ==
  /\ k \in 1..Len(expenses)
  /\ editing' = expenses[k].id
  /\ last' = None
  /\ UNCHANGED <<offlineEdit, dataFile, saves, net, remote, localDB, expenses, isOnline, used, tasks,
                 offlineNew>>

\* uuidv4(): an identifier never handed out before
uuidv4 == CHOOSE id \in Ids \ used : \A x \in Ids \ used : id <= x

Done(op, task, ok) ==
  [op |-> op, done |-> ok, isOnline |-> task.isOnline, id |-> task.expense.id,
   status |-> task.status, sent |-> task.sent]

\* create: await addToDB(expense); setExpenses([...expenses, expense]).
\* A failing add rejects the handler before setExpenses.
CreateLocally(task) ==
  LET r == addExpense(localDB, task.expense) IN
  /\ localDB' = r.store
  /\ expenses' = IF r.ok THEN Append(task.expenses, task.expense) ELSE expenses
  /\ last' = Done("create", task, r.ok)
  /\ editing' = editing

\* edit: await updateInDB(expense); setExpenses(expenses.map(...));
\* setEditing(null)
EditLocally(task) ==
  /\ localDB' = updateExpense(localDB, task.expense)
  /\ expenses' = [k \in 1..Len(task.expenses) |->
                    IF task.expenses[k].id = task.expense.id
                    THEN task.expense ELSE task.expenses[k]]
  /\ last' = Done("edit", task, TRUE)
  /\ editing' = NoId

\* handleSubmit up to its first fetch, to its end when isOnline is false.
\* The handler keeps the isOnline and expenses of the render it was created
\* in.
handleSubmit(amount, description, category, date) ==
  /\ amount \in MoreAmounts /\ description \in Descriptions
  /\ category \in categories /\ date \in Dates
  /\ editing = NoId => used # Ids
  /\ LET id == IF editing # NoId THEN editing ELSE uuidv4
         expense == [id |-> id, amount |-> parseFloat(amount),
                     description |-> description, category |-> category,
                     date |-> date, synced |-> isOnline]
         task == [kind |-> "submit",
                  pc |-> IF editing # NoId THEN "fetchPUT" ELSE "fetchPOST",
                  isOnline |-> isOnline, expenses |-> expenses,
                  expense |-> expense, status |-> 0, sent |-> 0]
     IN /\ used' = IF editing # NoId THEN used ELSE used \cup {id}
        /\ offlineNew' = IF editing = NoId /\ ~isOnline
                         THEN offlineNew \cup {id} ELSE offlineNew
        /\ offlineEdit' = IF editing # NoId /\ ~isOnline /\ id \in SeqIds(remote)
                          THEN [phase |-> "edited", expense |-> expense]
                          ELSE NoEdit
        /\ IF isOnline
           THEN /\ Fits(used', Append(tasks, task))
                /\ tasks' = Append(tasks, task)
                /\ last' = None
                /\ UNCHANGED <<localDB, expenses, editing>>
           ELSE /\ Fits(used', tasks)
                /\ tasks' = tasks
                /\ IF editing # NoId THEN EditLocally(task)
                   ELSE CreateLocally(task)
  /\ UNCHANGED <<dataFile, saves, net, remote, isOnline>>

\* create, online: the response of POST /expenses; expense.id = newExp.id
\* (the body of a 400 has no id).  A transport failure rejects the handler.
SubmitPost(t) ==
  /\ t \in 1..Len(tasks)
  /\ tasks[t].kind = "submit" /\ tasks[t].pc = "fetchPOST"
  /\ LET r == PostExpenses(remote, tasks[t].expense)
         task == [tasks[t] EXCEPT
                    !.sent = 1, !.status = IF net THEN r.status ELSE 0,
                    !.expense.id = IF net /\ r.status # 201 THEN NoId ELSE @]
     IN IF net
        THEN /\ Len(r.expenses) <= MaxRemote
             /\ remote' = r.expenses
             /\ dataFile' = Saved(r, dataFile)
             /\ CreateLocally(task)
        ELSE /\ last' = Done("create", task, FALSE)
             /\ UNCHANGED <<remote, dataFile, localDB, expenses, editing>>
  /\ tasks' = RemoveAt(tasks, t)
  /\ offlineEdit' = AfterFetch(tasks')
  /\ UNCHANGED <<saves, net, isOnline, used, offlineNew>>

\* edit, online: the response of PUT /expenses/:id, which is not read.
SubmitPut(t) ==
  /\ t \in 1..Len(tasks)
  /\ tasks[t].kind = "submit" /\ tasks[t].pc = "fetchPUT"
  /\ LET r == PutExpenses(remote, tasks[t].expense.id, tasks[t].expense)
         task == [tasks[t] EXCEPT
                    !.sent = 1, !.status = IF net THEN r.status ELSE 0]
     IN IF net
        THEN /\ remote' = r.expenses
             /\ dataFile' = Saved(r, dataFile)
             /\ EditLocally(task)
        ELSE /\ last' = Done("edit", task, FALSE)
             /\ UNCHANGED <<remote, dataFile, localDB, expenses, editing>>
  /\ tasks' = RemoveAt(tasks, t)
  /\ offlineEdit' = AfterFetch(tasks')
  /\ UNCHANGED <<saves, net, isOnline, used, offlineNew>>

\* await deleteFromDB(id); setExpenses(expenses.filter(...))
DeleteLocally(task) ==
  LET Keep(exp) == exp.id # task.expense.id IN
  /\ localDB' = deleteExpense(localDB, task.expense.id)
  /\ expenses' = SelectSeq(task.expenses, Keep)
  /\ last' = Done("delete", task, TRUE)

\* handleDelete(exp.id) on a row of the displayed list, up to its fetch, to
\* its end when isOnline is false.
handleDelete(k) ==
  /\ k \in 1..Len(expenses)
  /\ LET task == [kind |-> "delete", pc |-> "fetchDELETE",
                  isOnline |-> isOnline, expenses |-> expenses,
                  expense |-> [id |-> expenses[k].id], status |-> 0, sent |-> 0]
     IN IF isOnline
        THEN /\ Fits(used, Append(tasks, task))
             /\ tasks' = Append(tasks, task)
             /\ last' = None
             /\ UNCHANGED <<localDB, expenses>>
        ELSE /\ tasks' = tasks
             /\ DeleteLocally(task)
  /\ offlineEdit' = NoEdit
  /\ UNCHANGED <<dataFile, saves, net, remote, isOnline, editing, used, offlineNew>>

\* online: the response of DELETE /expenses/:id, which is not read.
DeleteFetch(t) ==
  /\ t \in 1..Len(tasks)
  /\ tasks[t].kind = "delete" /\ tasks[t].pc = "fetchDELETE"
  /\ LET r == DeleteExpenses(remote, tasks[t].expense.id)
         task == [tasks[t] EXCEPT
                    !.sent = 1, !.status = IF net THEN r.status ELSE 0]
     IN IF net
        THEN /\ remote' = r.expenses
             /\ dataFile' = Saved(r, dataFile)
             /\ DeleteLocally(task)
        ELSE /\ last' = Done("delete", task, FALSE)
             /\ UNCHANGED <<remote, dataFile, localDB, expenses>>
  /\ tasks' = RemoveAt(tasks, t)
  /\ offlineEdit' = AfterFetch(tasks')
  /\ UNCHANGED <<saves, net, isOnline, editing, used, offlineNew>>

\* ------------------------------------------------------- specification

Next ==
  \/ NetChange
  \/ Reload
  \/ checkOnline
  \/ \E k \in 1..(MaxRemote + MaxId) : handleEdit(k)
  \/ \E amount \in FormAmounts, description \in Descriptions,
        category \in categories, date \in Dates :
       handleSubmit(amount, description, category, date)
  \/ \E k \in 1..(MaxRemote + MaxId) : handleDelete(k)
  \/ \E t \in 1..MaxTasks :
       SyncPost(t) \/ LoadFetch(t) \/ SubmitPost(t) \/ SubmitPut(t) \/ DeleteFetch(t)

Spec == Init /\ [][Next]_vars

\* The client with a single identifier and one more amount to type, so that
\* a record can be edited to fields that differ from its earlier ones.
handleSubmitOneId(amount, description, category, date) ==
  handleSubmit(amount, description, category, date) /\ used' \subseteq {1}

NextOneId ==
  \/ NetChange
  \/ Reload
  \/ checkOnline
  \/ \E k \in 1..(MaxRemote + MaxId) : handleEdit(k)
  \/ \E amount \in MoreAmounts, description \in Descriptions,
        category \in categories, date \in Dates :
       handleSubmitOneId(amount, description, category, date)
  \/ \E k \in 1..(MaxRemote + MaxId) : handleDelete(k)
  \/ \E t \in 1..MaxTasks :
       SyncPost(t) \/ LoadFetch(t) \/ SubmitPost(t) \/ SubmitPut(t) \/ DeleteFetch(t)

SpecOneId == Init /\ [][NextOneId]_vars

Quiescent == tasks = <<>>

\* ------------------------------------------ the service on its own

\* The JSON bodies an HTTP client can send: any subset of the five fields.
Bodies ==
  LET Full == [id : Ids, amount : {parseFloat(a) : a \in FormAmounts},
               description : Descriptions, category : categories, date : Dates]
  IN {[f \in S |-> b[f]] : b \in Full, S \in SUBSET ServerFields}

\* app.post('/expenses') answering one request
ServerPost(body) ==
  /\ body \in Bodies
  /\ LET r == PostExpenses(remote, body) IN
     /\ Len(r.expenses) <= MaxRemote
     /\ remote' = r.expenses
     /\ dataFile' = Saved(r, dataFile)
     /\ last' = [op |-> "POST", body |-> body, status |-> r.status,
                 before |-> remote]
  /\ UNCHANGED <<offlineEdit, saves, net, localDB, expenses, isOnline, editing, used, tasks,
                 offlineNew>>

\* app.put('/expenses/:id') answering one request
ServerPut(id, body) ==
  /\ id \in Ids /\ body \in Bodies
  /\ LET r == PutExpenses(remote, id, body) IN
     /\ remote' = r.expenses
     /\ dataFile' = Saved(r, dataFile)
     /\ last' = [op |-> "PUT", id |-> id, body |-> body, status |-> r.status,
                 error |-> r.error, before |-> remote]
  /\ UNCHANGED <<offlineEdit, saves, net, localDB, expenses, isOnline, editing, used, tasks,
                 offlineNew>>

\* app.delete('/expenses/:id') answering one request
ServerDelete(id) ==
  /\ id \in Ids
  /\ LET r == DeleteExpenses(remote, id) IN
     /\ remote' = r.expenses
     /\ dataFile' = Saved(r, dataFile)
     /\ last' = [op |-> "DELETE", id |-> id, status |-> r.status,
                 error |-> r.error, before |-> remote]
  /\ UNCHANGED <<offlineEdit, saves, net, localDB, expenses, isOnline, editing, used, tasks,
                 offlineNew>>

NextServer ==
  \/ \E body \in Bodies : ServerPost(body)
  \/ \E id \in Ids, body \in Bodies : ServerPut(id, body)
  \/ \E id \in Ids : ServerDelete(id)

SpecServer == Init /\ [][NextServer]_vars

\* ------------------------------ the service and its file, step by step
\* A route handler runs to its first await in one step: it validates,
\* changes the list and calls saveToDisk(), which awaits fs.mkdir and then
\* fs.writeFile.  A call in `saves` is at pc "mkdir" or "writeFile"; text is
\* what JSON.stringify(expenses) gave when writeFile was called; raced tells
\* that another writeFile on the file was under way at the same time.

FullBodies == {b \in Bodies : DOMAIN b = ServerFields}

\* await saveToDisk() of a handler that changed the list
StartSave(r) ==
  IF r.status \in {200, 201, 204}
  THEN Append(saves, [pc |-> "mkdir", text |-> <<>>, raced |-> FALSE])
  ELSE saves

\* A route handler answering r, up to its await.
DiskHandler(r) ==
  /\ Len(r.expenses) <= MaxRemote
  /\ Len(StartSave(r)) <= MaxSaves
  /\ remote' = r.expenses
  /\ saves' = StartSave(r)
  /\ last' = None
  /\ UNCHANGED <<offlineEdit, net, localDB, expenses, isOnline, editing, used, tasks,
                 offlineNew, dataFile>>

DiskPost(body) == body \in FullBodies /\ DiskHandler(PostExpenses(remote, body))

DiskPut(id, body) ==
  id \in Ids /\ body \in FullBodies /\ DiskHandler(PutExpenses(remote, id, body))

DiskDelete(id) == id \in Ids /\ DiskHandler(DeleteExpenses(remote, id))

\* fs.mkdir has returned: JSON.stringify(expenses) of the list as it is now,
\* and fs.writeFile is started.
MkdirDone(k) ==
  /\ k \in 1..Len(saves) /\ saves[k].pc = "mkdir"
  /\ LET racing == \E j \in 1..Len(saves) : saves[j].pc = "writeFile"
     IN saves' = [j \in 1..Len(saves) |->
                    IF j = k
                    THEN [pc |-> "writeFile", text |-> remote, raced |-> racing]
                    ELSE IF saves[j].pc = "writeFile"
                    THEN [saves[j] EXCEPT !.raced = TRUE]
                    ELSE saves[j]]
  /\ last' = None
  /\ UNCHANGED <<offlineEdit, net, remote, localDB, expenses, isOnline, editing, used,
                 tasks, offlineNew, dataFile>>

\* fs.writeFile has returned and the handler answers.  Nothing orders two
\* writeFile calls on one file: they end in either order, and where they
\* overlapped the file may hold a mix of the two texts.
WriteDone(k) ==
  /\ k \in 1..Len(saves) /\ saves[k].pc = "writeFile"
  /\ dataFile' \in {WriteFile(saves[k].text)} \cup
                    (IF saves[k].raced THEN {Garbled} ELSE {})
  /\ saves' = RemoveAt(saves, k)
  /\ last' = None
  /\ UNCHANGED <<offlineEdit, net, remote, localDB, expenses, isOnline, editing, used,
                 tasks, offlineNew>>

\* The service is stopped and started again: the handlers under way are
\* gone, a writeFile that was cut short may leave a truncated text, and
\* loadFromDisk() fills the list, which starts as [].
Restart ==
  /\ dataFile' \in {dataFile} \cup
                    (IF \E j \in 1..Len(saves) : saves[j].pc = "writeFile"
                     THEN {Truncated} ELSE {})
  /\ remote' = loadFromDisk(dataFile', <<>>)
  /\ saves' = <<>>
  /\ last' = None
  /\ UNCHANGED <<offlineEdit, net, localDB, expenses, isOnline, editing, used, tasks,
                 offlineNew>>

NextDisk ==
  \/ \E body \in FullBodies : DiskPost(body)
  \/ \E id \in Ids, body \in FullBodies : DiskPut(id, body)
  \/ \E id \in Ids : DiskDelete(id)
  \/ \E k \in 1..MaxSaves : MkdirDone(k) \/ WriteDone(k)
  \/ Restart

InitDisk == Init /\ net = TRUE

SpecDisk == InitDisk /\ [][NextDisk]_vars

\* ------------------------------------------------ getSummary (App.jsx)
\* Instants are hours since 2024-01-01T00:00Z.  A date string YYYY-MM-DD is
\* the tuple of its three numbers.  tz is the offset of local time from UTC
\* in hours.

\* Days of the months of 2024 the model reaches.
DaysIn(m) == IF m = 2 THEN 29 ELSE 31

\* Day number of the first day of month m (1 January is day 0).
RECURSIVE FirstDay(_)
FirstDay(m) == IF m = 1 THEN 0 ELSE FirstDay(m - 1) + DaysIn(m - 1)

\* new Date("YYYY-MM-DD"): a date-only string is 00:00 UTC of that day.
NewDate(date) == (FirstDay(date[2]) + date[3] - 1) * 24

\* now.getFullYear(), now.getMonth(), now.getDate(): the local calendar day
\* of an instant, as a day number, and its month.
LocalDay(now, tz) == (now + tz) \div 24

MonthOfDay(day) ==
  CHOOSE m \in 1..3 : FirstDay(m) <= day /\ day < FirstDay(m) + DaysIn(m)

\* new Date(year, month, date): 00:00 local time of a day
LocalMidnight(day, tz) == day * 24 - tz

\* Faulty variant: the week's window starts now
StartWeekNow(period, now, tz) ==
  IF period = "today" THEN LocalMidnight(LocalDay(now, tz), tz)
  ELSE IF period = "week" THEN now
  ELSE LocalMidnight(FirstDay(MonthOfDay(LocalDay(now, tz))), tz)

\* start, for the three periods
Start(period, now, tz) ==
  IF period = "today" THEN LocalMidnight(LocalDay(now, tz), tz)
  ELSE IF period = "week" THEN now - 7 * 24
  ELSE LocalMidnight(FirstDay(MonthOfDay(LocalDay(now, tz))), tz)

\* .reduce((sum, exp) => sum + exp.amount, 0)
RECURSIVE Reduce(_)
Reduce(list) ==
  IF list = <<>> THEN 0
  ELSE Reduce(SubSeq(list, 1, Len(list) - 1)) + list[Len(list)].amount

getSummary(list, period, now, tz) ==
  LET start == Start(period, now, tz)
      InWindow(exp) == NewDate(exp.date) >= start
  IN Reduce(SelectSeq(list, InWindow))

SummaryAmounts == {-5, 0, 5}
SummaryDates == {<<2024, 1, 27>>, <<2024, 1, 31>>, <<2024, 2, 1>>,
                 <<2024, 2, 4>>, <<2024, 2, 9>>}
Timezones == {-5, 0, 9}
Nows == {NewDate(d) + h : d \in {<<2024, 2, 1>>, <<2024, 2, 4>>, <<2024, 2, 9>>},
                          h \in {0, 13, 23}}

\* The working sets of up to MaxSummaryLen records.
SummarySets ==
  UNION {{[k \in 1..n |-> [id |-> k, amount |-> f[k].amount,
                           description |-> "Coffee", category |-> "Food",
                           date |-> f[k].date, synced |-> TRUE]] :
            f \in [1..n -> [amount : SummaryAmounts, date : SummaryDates]]} :
         n \in 0..MaxSummaryLen}

InitSummary ==
  /\ net = FALSE
  /\ remote = <<>>
  /\ localDB = <<>>
  /\ expenses \in SummarySets
  /\ isOnline = FALSE
  /\ editing = NoId
  /\ used = {}
  /\ tasks = <<>>
  /\ last = None
  /\ offlineNew = {}
  /\ dataFile = NoFile
  /\ saves = <<>>
  /\ offlineEdit = NoEdit

\* A render of the summary card at instant now in timezone tz: the three
\* calls of getSummary.
RenderSummary(now, tz) ==
  /\ last' = [op |-> "summary", now |-> now, tz |-> tz,
              today |-> getSummary(expenses, "today", now, tz),
              week |-> getSummary(expenses, "week", now, tz),
              month |-> getSummary(expenses, "month", now, tz)]
  /\ UNCHANGED <<offlineEdit, dataFile, saves, net, remote, localDB, expenses, isOnline, editing, used,
                 tasks, offlineNew>>

NextSummary == \E now \in Nows, tz \in Timezones : RenderSummary(now, tz)

SpecSummary == InitSummary /\ [][NextSummary]_vars

\* ================================================================ claims

\* The remote representation of a local record (no synced flag).
Remote(rec) ==
  [id |-> rec.id, amount |-> rec.amount, description |-> rec.description,
   category |-> rec.category, date |-> rec.date]

InRemote(rec) == \E k \in 1..Len(remote) : remote[k] = Remote(rec)

Range(seq) == {seq[k] : k \in 1..Len(seq)}

IsPrefix(a, b) == Len(a) <= Len(b) /\ a = SubSeq(b, 1, Len(a))

\* C1 (as claimed): in every quiescent state, every local record with
\* synced = true has a record with the same id in the remote list carrying
\* the same amount, description, category and date.
C1_SyncedSoundness ==
  Quiescent =>
    \A id \in DOMAIN localDB : localDB[id].synced => InRemote(localDB[id])

\* C2 (as claimed): no two records of the remote list share an id, and the
\* local store holds at most one record per id.
C2_IdUniqueness ==
  /\ \A i, j \in 1..Len(remote) : remote[i].id = remote[j].id => i = j
  /\ \A k \in DOMAIN localDB : localDB[k].id = k

\* C3 (as claimed): a sweep, however it ends, has issued exactly one POST for
\* every record that was pending when the signal became true.
C3_PushOncePerTransition ==
  last.op = "sweep" => last.posted = last.pend

\* C3 (amended): a sweep issues its POSTs in the order of the pending
\* records it read, one per record and none for a record read as synced; it
\* stops at the first POST that fails at transport level, and only a sweep
\* that gets through its loop has issued one POST for every pending record.
C3_PushOnceAmended ==
  /\ \A t \in 1..Len(tasks) :
       tasks[t].kind = "sync" =>
         /\ IsPrefix(tasks[t].posted, tasks[t].pend)
         /\ Len(tasks[t].posted) < Len(tasks[t].pend)
         /\ tasks[t].localExpenses[tasks[t].i].id
              = tasks[t].pend[Len(tasks[t].posted) + 1]
  /\ last.op = "sweep" /\ last.how = "loop" => last.posted = last.pend
  /\ last.op = "sweep" /\ last.how = "catch" =>
       /\ IsPrefix(last.posted, last.pend)
       /\ last.posted # <<>>

\* C3 witness: a sweep with two pending records ended by a transport
\* failure at its first POST.
C3_Witness ==
  /\ last.op = "sweep" /\ last.how = "catch"
  /\ Len(last.pend) = 2 /\ Len(last.posted) = 1

\* C4: an offline create leaves the record in the local store and in the
\* working set with synced = false without any remote request, and a record
\* created offline stays pending until the signal next becomes true.
C4_OfflineCreatePending ==
  /\ (last.op = "create" /\ ~last.isOnline) =>
       /\ last.done /\ last.sent = 0
       /\ last.id \in DOMAIN localDB /\ ~localDB[last.id].synced
       /\ \E k \in 1..Len(expenses) :
            expenses[k] = localDB[last.id] /\ ~expenses[k].synced
  /\ \A id \in offlineNew : id \in DOMAIN localDB => ~localDB[id].synced

\* C4 witness: a record has just been created offline while a handler
\* started when the signal was true is still waiting for its response.
C4_Witness ==
  /\ last.op = "create" /\ ~last.isOnline
  /\ last.id \in offlineNew
  /\ tasks # <<>>

\* C5: when an online create whose POST was answered 201 finishes, the local
\* store holds the record with synced = true and the remote list holds a
\* record with the same id and content.
C5_OnlineCreateRoundTrip ==
  (last.op = "create" /\ last.isOnline /\ last.status = 201) =>
    /\ last.done
    /\ last.id \in DOMAIN localDB
    /\ localDB[last.id].synced
    /\ InRemote(localDB[last.id])

\* C5 witness: an online create answered 201 has finished, next to another
\* record in the remote list.
C5_Witness ==
  /\ last.op = "create" /\ last.isOnline /\ last.status = 201
  /\ Len(remote) = 2

\* C6 (as claimed): once a sweep has got through its loop, every POST
\* having been answered, each record it read as pending is in the remote
\* list and is synced in the local store.
C6_EventualSync ==
  (last.op = "sweep" /\ last.how = "loop") =>
    \A id \in Range(last.pend) :
      /\ id \in SeqIds(remote)
      /\ id \in DOMAIN localDB /\ localDB[id].synced

\* C7: right after a load/merge, a second run on the same remote list and
\* local store yields the same working set and leaves the local store as it
\* is.
C7_MergeIdempotent ==
  /\ (last.op = "load" /\ last.how = "merge") =>
       /\ Merged(ServerWithFlag(remote), getExpenses(localDB)) = expenses
       /\ WriteBack(localDB, ServerWithFlag(remote)) = localDB
  /\ (last.op = "load" /\ last.how \in {"offline", "catch"}) =>
       getExpenses(localDB) = expenses

\* C7 witness: an online merge that showed a remote record and a pending
\* local one.
C7_Witness ==
  /\ last.op = "load" /\ last.how = "merge"
  /\ remote # <<>>
  /\ \E k \in 1..Len(expenses) : ~expenses[k].synced

\* C8 (as claimed): when a delete performed online completes, the id is in
\* neither the local store nor the remote list.
C8_OnlineDelete ==
  (last.op = "delete" /\ last.isOnline /\ last.done) =>
    /\ last.id \notin DOMAIN localDB
    /\ last.id \notin SeqIds(remote)

\* C9: a delete performed offline removes the id from the local store and
\* the working set, sends no request and leaves the remote list unchanged.
C9_OfflineDelete ==
  [][(last'.op = "delete" /\ ~last'.isOnline) =>
       /\ last'.done /\ last'.sent = 0
       /\ remote' = remote
       /\ last'.id \notin DOMAIN localDB'
       /\ last'.id \notin SeqIds(expenses')]_vars

\* C9 witness: after an offline delete the record is still in the remote
\* list.
C9_Witness ==
  /\ last.op = "delete" /\ ~last.isOnline
  /\ last.id \in SeqIds(remote)

\* C10 (as claimed): a POST carrying all five fields is answered 201 and
\* appends exactly that record; a POST missing a field is answered 400 and
\* leaves the list unchanged.
C10_PostValidation ==
  last.op = "POST" =>
    IF ServerFields \subseteq DOMAIN last.body
    THEN last.status = 201 /\ remote = Append(last.before, Remote(last.body))
    ELSE last.status = 400 /\ remote = last.before

\* C11: PUT or DELETE with an id that is not in the remote list is answered
\* 404 with error 'Expense not found' and leaves the list unchanged, for PUT
\* whether or not the body is complete.
C11_UnknownId ==
  (last.op \in {"PUT", "DELETE"} /\ last.id \notin SeqIds(last.before)) =>
    /\ last.status = 404
    /\ last.error = "Expense not found"
    /\ remote = last.before

\* C11 witness: a PUT with an incomplete body for an id the non-empty list
\* does not hold.
C11_Witness ==
  /\ last.op = "PUT" /\ last.id \notin SeqIds(last.before)
  /\ last.before # <<>>
  /\ "amount" \notin DOMAIN last.body

\* C12: for a working set without negative amounts, at any instant, the
\* summary of today is at most that of the week, and the summary of the week
\* is at most that of the month when the month starts no later than the
\* rolling 7-day window.
C12_SummaryNesting ==
  (last.op = "summary" /\ \A k \in 1..Len(expenses) : expenses[k].amount >= 0) =>
    /\ last.today <= last.week
    /\ Start("month", last.now, last.tz) <= Start("week", last.now, last.tz)
         => last.week <= last.month

\* C12 witness: three nested windows holding one, two and three records,
\* away from UTC.
C12_Witness ==
  /\ last.op = "summary" /\ last.tz # 0
  /\ \A k \in 1..Len(expenses) : expenses[k].amount >= 0
  /\ Start("month", last.now, last.tz) <= Start("week", last.now, last.tz)
  /\ 0 < last.today /\ last.today < last.week /\ last.week < last.month

\* C13 (as claimed): whenever no request is waiting in saveToDisk() and no
\* write was cut short, the file holds exactly the in-memory list, so that
\* loadFromDisk() restores it; an absent file stands for the empty list.
C13_Persistence ==
  (saves = <<>> /\ dataFile # Truncated) =>
    \/ dataFile = WriteFile(remote)
    \/ dataFile = NoFile /\ remote = <<>>

\* C14: when the POST of a sweep is answered, with whatever status, the
\* record the sweep read as pending is put into the local store with
\* synced = true and its other fields as read, no other local record being
\* touched; when the POST fails at transport level the local store is left
\* as it is, the record keeping synced = false.
C14_PushMarksSynced ==
  [][\A t \in 1..Len(tasks) :
       SyncPost(t) =>
         LET exp == tasks[t].localExpenses[tasks[t].i] IN
         /\ ~exp.synced
         /\ IF net
            THEN /\ exp.id \in DOMAIN localDB'
                 /\ localDB'[exp.id] = [exp EXCEPT !.synced = TRUE]
                 /\ \A k \in DOMAIN localDB \ {exp.id} :
                      k \in DOMAIN localDB' /\ localDB'[k] = localDB[k]
            ELSE /\ localDB' = localDB
                 /\ (exp.id \in DOMAIN localDB /\ ~localDB[exp.id].synced) =>
                      ~localDB'[exp.id].synced]_vars

\* C14 witness: a POST of a sweep was answered 400 and the record is synced
\* in the local store.
C14_Witness ==
  /\ last.op = "push" /\ last.status = 400
  /\ last.id \in DOMAIN localDB /\ localDB[last.id].synced

\* C15 (as claimed): when a load/merge has fetched the remote list, the
\* working set is the remote list in its order, every record flagged
\* synced, followed by exactly the local records that are pending and whose
\* id is not in the remote list; and every record of the local store
\* appears in the working set.
C15_OnlineMergeResult ==
  [][(last'.op = "load" /\ last'.how = "merge") =>
       LET Residual(le) == ~le.synced /\ le.id \notin SeqIds(remote) IN
       /\ Len(expenses') >= Len(remote)
       /\ \A k \in 1..Len(remote) :
            /\ Remote(expenses'[k]) = remote[k]
            /\ expenses'[k].synced
       /\ SubSeq(expenses', Len(remote) + 1, Len(expenses'))
            = SelectSeq(getExpenses(localDB), Residual)
       /\ \A id \in DOMAIN localDB : id \in SeqIds(expenses')]_vars

\* C16 (as claimed): when a load/merge that fetched the remote list
\* completes, the local store holds, for every record of the remote list, a
\* record with its id, its fields and synced = true; the local records
\* whose id is not in the remote list are as they were, and none is removed.
C16_MergeWriteBack ==
  [][(last'.op = "load" /\ last'.how = "merge") =>
       /\ \A k \in 1..Len(remote) :
            /\ remote[k].id \in DOMAIN localDB'
            /\ localDB'[remote[k].id] = WithSynced(remote[k], TRUE)
       /\ \A id \in DOMAIN localDB :
            /\ id \in DOMAIN localDB'
            /\ id \notin SeqIds(remote) => localDB'[id] = localDB[id]]_vars

C18_CreateLandsLocally ==
  last.op = "create" =>
    /\ last.id # NoId
    /\ last.id \in DOMAIN localDB
    /\ localDB[last.id].synced = last.isOnline

\* C19 (as claimed): when a delete of id X finishes, X is not in the local
\* store, whatever the online signal was and whatever the remote delete
\* answered.
C19_DeleteUnconditional ==
  last.op = "delete" => last.id \notin DOMAIN localDB

\* C20: a probe that completes sets the online signal to its outcome,
\* whatever the signal was; a sweep is started by every step that takes the
\* signal from false to true and by no other step.
C20_ConnectivitySignal ==
  [][LET SweepStarted ==
           /\ Len(tasks') = Len(tasks) + 1
           /\ tasks'[Len(tasks')].kind \in {"sync", "load"}
     IN /\ checkOnline => isOnline' = net
        /\ SweepStarted <=> (~isOnline /\ isOnline')]_vars

\* C20 witness: the signal is true and a sweep that has posted nothing yet
\* is suspended behind a handler started earlier.
C20_Witness ==
  /\ isOnline /\ Len(tasks) = 2
  /\ tasks[2].kind = "sync" /\ tasks[2].posted = <<>>

\* C21 (as claimed): a record of the remote list is edited offline; the
\* signal then becomes true and the sweep and the merge that follow go
\* through, no request failing and the user doing nothing else.  When the
\* merge has completed and no handler is left, the local store holds the
\* edited fields under the id with synced = true and the remote list holds
\* a record with the id and the edited fields.
C21_OfflineEditSurvives ==
  [][(/\ offlineEdit.phase = "sweeping"
      /\ tasks # <<>> /\ tasks' = <<>>
      /\ last'.op = "load" /\ last'.how = "merge") =>
       LET e == offlineEdit.expense IN
       /\ e.id \in DOMAIN localDB'
       /\ localDB'[e.id] = [e EXCEPT !.synced = TRUE]
       /\ \E k \in 1..Len(remote') : remote'[k] = Remote(e)]_vars

\* C22 (as claimed): a sweep does not bring back a record that was deleted
\* after the sweep read the local collection: when the answer to the POST
\* of a record arrives and the record is no longer in the local store, the
\* sweep's write-back leaves it absent.
C22_NoResurrection ==
  [][\A t \in 1..Len(tasks) :
       SyncPost(t) =>
         LET exp == tasks[t].localExpenses[tasks[t].i] IN
         exp.id \notin DOMAIN localDB => exp.id \notin DOMAIN localDB']_vars

\* C23 (as claimed): the working set a load/merge has produced holds no two
\* records with the same id.
C23_NoDuplicateDisplay ==
  last.op = "load" =>
    \A i, j \in 1..Len(expenses) : expenses[i].id = expenses[j].id => i = j

====
